---- MODULE Spec2Model ----
(***************************************************************************)
(* Directory-Analyzer: the recursive walk of analyzeDir.cpp                *)
(* (get_dir_stats), its helpers (clean_path, count_words_in_file,          *)
(* get_image_info, the two comparators) and the assembly of Results in     *)
(* analyzeDir, as a state machine over a bounded family of directory       *)
(* trees.                                                                  *)
(*                                                                         *)
(* std::string values are sequences of character codes (ASCII), so that    *)
(* prefix stripping, suffix tests, lower-casing and lexicographic order    *)
(* are computed and not assumed.                                           *)
(***************************************************************************)
EXTENDS Integers, Sequences, FiniteSets, TLC

\* ------------------------------------------------------------------------
\* Bounds of the model
\* ------------------------------------------------------------------------
\* entries (files, directories, others) in a whole tree
MaxEntries == 3
\* the argument n of analyzeDir ranges over 0..MaxN
MaxN == 2
\* characters in the content of a generated text file
MaxLen == 6

\* ------------------------------------------------------------------------
\* Program constants
\* ------------------------------------------------------------------------
CURRENT_DIRECTORY == <<46>>
PREVIOUS_DIRECTORY == <<46, 46>>
PATH_SEPARATOR == 47
NO_PATH == <<>>
SYSCALL_SUCCESS == 0
DEFAULT_LARGEST_SIZE == -1
MIN_WORD_SIZE == 5
\* ".txt", the suffix get_dir_stats looks for
TXT_SUFFIX == <<46, 116, 120, 116>>

\* ------------------------------------------------------------------------
\* std::string
\* ------------------------------------------------------------------------
\* std::string::operator< : lexicographic on character codes, a proper prefix
\* is smaller
RECURSIVE StrLess(_, _)
StrLess(a, b) ==
  IF b = <<>> THEN FALSE
  ELSE IF a = <<>> THEN TRUE
  ELSE IF a[1] # b[1] THEN a[1] < b[1]
  ELSE StrLess(Tail(a), Tail(b))

tolower(c) == IF c >= 65 /\ c <= 90 THEN c + 32 ELSE c

isalpha(c) == (c >= 65 /\ c <= 90) \/ (c >= 97 /\ c <= 122)

lowercase(str) == [i \in 1..Len(str) |-> tolower(str[i])]

ends_with(str, suffix) ==
  IF Len(str) < Len(suffix) THEN FALSE
  ELSE SubSeq(str, Len(str) - Len(suffix) + 1, Len(str)) = suffix

clean_path(path) ==
  IF Len(path) >= 2 /\ SubSeq(path, 1, 2) = CURRENT_DIRECTORY \o <<PATH_SEPARATOR>>
  THEN SubSeq(path, 3, Len(path))
  ELSE path

\* dir_path + PATH_SEPARATOR + entry_name
JoinPath(dir_path, entry_name) == dir_path \o <<PATH_SEPARATOR>> \o entry_name

\* ------------------------------------------------------------------------
\* std::unordered_map: a function whose domain is the set of keys
\* ------------------------------------------------------------------------
EmptyMap == [k \in {} |-> 0]

\* operator[] as an rvalue: the mapped value, or the value-initialised one
\* (0 for int, "" for std::string) that operator[] inserts for a missing key
MapGet(map, key, dflt) == IF key \in DOMAIN map THEN map[key] ELSE dflt

\* map[key] = value
MapPut(map, key, value) == [k \in DOMAIN map \cup {key} |-> IF k = key THEN value ELSE map[k]]

\* a mutant of MapAdd: the value is assigned, not added
MapAdd_Assign(map, key, by) == MapPut(map, key, by)

\* map[key] += by
MapAdd(map, key, by) == MapPut(map, key, MapGet(map, key, 0) + by)

\* ------------------------------------------------------------------------
\* The file system the program is run on
\* ------------------------------------------------------------------------
\* One directory entry as readdir and the later calls on its path see it:
\*   kind            what the inode is: "file" (S_ISREG), "dir" (S_ISDIR), "other"
\*   stat1, stat2    whether the first and the second stat call on the path succeed
\*                   (the first is the one in is_file; the second is the size lookup
\*                   of the file branch, or the one in is_dir)
\*   size            st_size
\*   opendir         whether opendir on the path succeeds
\*   fopen, content  whether fopen succeeds, and the characters fgetc returns
\*   popen           whether popen of the identify command succeeds
\*   out, width, height   what identify prints on its first line: "none" (nothing),
\*                   "text" (no number), "dims" (the two numbers width height)
\*   status          what pclose returns
Entry(name, kind) ==
  [name |-> name, kind |-> kind, stat1 |-> TRUE, stat2 |-> TRUE, size |-> 0,
   opendir |-> TRUE, fopen |-> TRUE, content |-> <<>>, popen |-> TRUE,
   out |-> "none", width |-> 0, height |-> 0, status |-> 1]

FileOf(name, size) == [Entry(name, "file") EXCEPT !.size = size]

TextOf(name, content) ==
  [Entry(name, "file") EXCEPT !.size = Len(content), !.content = content]

ImageOf(name, size, width, height) ==
  [Entry(name, "file") EXCEPT !.size = size, !.out = "dims", !.width = width,
                              !.height = height, !.status = 0]

DirOf(name) == Entry(name, "dir")

\* a directory entry the walk descends into and can list
Listed(e) ==
  /\ e.kind = "dir" /\ e.stat2 /\ e.opendir
  /\ e.name # CURRENT_DIRECTORY /\ e.name # PREVIOUS_DIRECTORY

\* the strings over `alphabet` of length at most k
RECURSIVE StringsUpTo(_, _)
StringsUpTo(alphabet, k) ==
  IF k = 0 THEN {<<>>}
  ELSE LET shorter == StringsUpTo(alphabet, k - 1)
       IN shorter \cup {<<c>> \o s : c \in alphabet, s \in {t \in shorter : Len(t) = k - 1}}

\* names: d e B u x  f g h k m s  p q r  a.txt N.TXT txt c.txt
Name_d == <<100>>
Name_e == <<101>>
Name_B == <<66>>
Name_u == <<117>>
Name_x == <<120>>
Name_f == <<102>>
Name_g == <<103>>
Name_h == <<104>>
Name_k == <<107>>
Name_m == <<109>>
Name_s == <<115>>
Name_p == <<112>>
Name_q == <<113>>
Name_r == <<114>>
Name_a_txt == <<97, 46, 116, 120, 116>>
Name_N_TXT == <<78, 46, 84, 88, 84>>
Name_txt == <<116, 120, 116>>
Name_c_txt == <<99, 46, 116, 120, 116>>
Name_empty == <<101, 109, 112, 116, 121>>

\* "hello hello world", "Hello,WORLDS hello", "abcd hello"
Text_hhw == <<104,101,108,108,111,32,104,101,108,108,111,32,119,111,114,108,100>>
Text_HW == <<72,101,108,108,111,44,87,79,82,76,68,83,32,104,101,108,108,111>>
Text_short == <<97,98,99,100,32,104,101,108,108,111>>

\* The catalogues the entries of a tree are drawn from.
\* "stats", for the counts, the sizes and the largest file: two files of one
\* size, an empty file, a file whose size lookup fails, a file whose stat fails,
\* a socket, two directories, a directory whose stat fails.
CatStats ==
  {FileOf(Name_f, 2), FileOf(Name_g, 2), FileOf(Name_h, 0),
   [FileOf(Name_k, 3) EXCEPT !.stat2 = FALSE],
   [FileOf(Name_m, 3) EXCEPT !.stat1 = FALSE, !.stat2 = FALSE],
   Entry(Name_s, "other"),
   DirOf(Name_d), DirOf(Name_e),
   [DirOf(Name_u) EXCEPT !.stat1 = FALSE, !.stat2 = FALSE, !.opendir = FALSE]}

\* "vacant", for the vacant directories: two directory names (one in upper
\* case), a file, a directory that cannot be opened, the pseudo-entry "..".
CatVacant ==
  {DirOf(Name_d), DirOf(Name_B), FileOf(Name_f, 1),
   [DirOf(Name_x) EXCEPT !.opendir = FALSE],
   DirOf(PREVIOUS_DIRECTORY)}

\* "words", for the word table: three text files (one with an upper-case
\* suffix), a file named "txt", a file that is no text file but holds words, a
\* text file that cannot be opened, a text file whose stat fails, a directory,
\* the pseudo-entry ".".
CatWords ==
  {TextOf(Name_a_txt, Text_hhw), TextOf(Name_N_TXT, Text_HW),
   TextOf(Name_c_txt, Text_short), TextOf(Name_txt, Text_hhw),
   TextOf(Name_f, Text_hhw),
   [TextOf(Name_x \o TXT_SUFFIX, Text_hhw) EXCEPT !.fopen = FALSE],
   [TextOf(Name_m \o TXT_SUFFIX, Text_hhw) EXCEPT !.stat1 = FALSE, !.stat2 = FALSE],
   DirOf(Name_d), DirOf(CURRENT_DIRECTORY)}

\* the characters of the generated text files: a B and the space
TextAlphabet == {97, 66, 32}

\* "text": one text file, with every content over TextAlphabet
CatText == {TextOf(Name_a_txt, c) : c \in StringsUpTo(TextAlphabet, MaxLen)}

\* "images", for the images: two images of one area, a smaller one, and files
\* on which identify exits with a non-zero status, prints a zero width, prints
\* no number, or cannot be started; a directory.
CatImages ==
  {ImageOf(Name_p, 1, 2, 3), ImageOf(Name_q, 1, 3, 2), ImageOf(Name_r, 1, 1, 1),
   [ImageOf(Name_f, 1, 4, 4) EXCEPT !.status = 1],
   [ImageOf(Name_g, 1, 0, 5) EXCEPT !.status = 0],
   [ImageOf(Name_h, 1, 4, 4) EXCEPT !.out = "text"],
   [FileOf(Name_x, 1) EXCEPT !.popen = FALSE],
   DirOf(Name_d)}

\* "runs", for repeated calls: two files of one size, a text file, two images
\* of one area, a directory, a socket and the pseudo-entry ".".
CatRuns ==
  {FileOf(Name_f, 2), FileOf(Name_g, 2), TextOf(Name_a_txt, Text_hhw),
   ImageOf(Name_p, 1, 2, 3), ImageOf(Name_q, 3, 3, 2), DirOf(Name_d),
   Entry(Name_s, "other"), DirOf(CURRENT_DIRECTORY)}

\* "scenario": the text file a.txt and the directory empty
CatScenario == {TextOf(Name_a_txt, Text_hhw), DirOf(Name_empty)}

Catalogue(fam) ==
  CASE fam = "stats" -> CatStats
    [] fam = "vacant" -> CatVacant
    [] fam = "words" -> CatWords
    [] fam = "text" -> CatText
    [] fam = "images" -> CatImages
    [] fam = "runs" -> CatRuns
    [] fam = "scenario" -> CatScenario
    [] OTHER -> {}

\* the most entries a tree of the family holds
Budget(fam) ==
  CASE fam = "vacant" -> MaxEntries + 1
    [] fam = "text" -> 1
    [] fam = "scenario" -> 2
    [] OTHER -> MaxEntries

\* the working directory, empty; and a working directory that cannot be opened
EmptyTree == CURRENT_DIRECTORY :> <<>>
NoTree == EmptyMap

\* the same tree with readdir returning the entries of each directory in
\* another order
RECURSIVE Orders(_)
Orders(seq) ==
  IF seq = <<>> THEN {<<>>}
  ELSE UNION {
    {<<seq[i]>> \o r :
        r \in Orders(SubSeq(seq, 1, i - 1) \o SubSeq(seq, i + 1, Len(seq)))} :
    i \in 1..Len(seq)}

RECURSIVE ReorderingsOver(_, _)
ReorderingsOver(t, dirs) ==
  IF dirs = {} THEN {EmptyMap}
  ELSE LET d == CHOOSE x \in dirs : TRUE
       IN {(d :> o) @@ r : o \in Orders(t[d]), r \in ReorderingsOver(t, dirs \ {d})}

Reorderings(t) == ReorderingsOver(t, DOMAIN t)

VARIABLES
  family,                 \* the catalogue the entries of the tree are drawn from
  tree,                   \* the file system below the current working directory:
                          \* the listing of every directory that can be opened,
                          \* in the order readdir returns its entries
  pc,                     \* "idle", "walk", "walked", "done" or "aborted"
  stack,                  \* the active get_dir_stats calls, the root call first
  parent_map,             \* std::unordered_map<std::string, std::string>
  n_files_map,            \* std::unordered_map<std::string, int>
  most_common_words_map,  \* std::unordered_map<std::string, int>
  handles,                \* the open DIR*, FILE* and pipe handles
  root_stats,             \* the DirStats the root call returned
  results,                \* the Results analyzeDir returned
  mode,                   \* "first" call, or called "again", or in a "fresh" process
  prev                    \* the tree and the Results of the call before

vars == <<family, tree, pc, stack, parent_map, n_files_map, most_common_words_map,
          handles, root_stats, results, mode, prev>>

\* DirStats as constructed (src line 157)
NewDirStats ==
  [largest_file_path |-> NO_PATH, largest_file_size |-> DEFAULT_LARGEST_SIZE,
   n_files |-> 0, n_dirs |-> 1, all_files_size |-> 0, largest_images |-> <<>>]

NoResults == [n |-> -1]

\* the state of the process when main calls analyzeDir
Start ==
  /\ pc = "idle"
  /\ stack = <<>>
  /\ parent_map = EmptyMap
  /\ n_files_map = EmptyMap
  /\ most_common_words_map = EmptyMap
  /\ handles = {}
  /\ root_stats = NewDirStats
  /\ results = NoResults
  /\ mode = "first"
  /\ prev = NoResults

\* an empty working directory, or one that cannot be opened
Init ==
  /\ \/ family \in {"stats", "vacant", "words", "text", "images", "scenario"} /\ tree = EmptyTree
     \/ family = "none" /\ tree = NoTree
  /\ Start

InitRuns ==
  /\ family = "runs" /\ tree = EmptyTree
  /\ Start

\* Before the program is started, an entry of the catalogue is created in a
\* directory of the tree: readdir returns it after the entries created before.
\* The trees of the family "runs" are created in ascending order of name: the
\* second call sees each of them in every order.
NEntries(t) == Cardinality(UNION {{<<d, i>> : i \in 1..Len(t[d])} : d \in DOMAIN t})

Create(d, e) ==
  /\ pc = "idle" /\ mode = "first"
  /\ d \in DOMAIN tree
  /\ NEntries(tree) < Budget(family)
  /\ \A i \in 1..Len(tree[d]) : tree[d][i].name # e.name
  /\ family = "runs" => \A i \in 1..Len(tree[d]) : StrLess(tree[d][i].name, e.name)
  /\ tree' = IF Listed(e)
             THEN (JoinPath(d, e.name) :> <<>>) @@ [tree EXCEPT ![d] = Append(@, e)]
             ELSE [tree EXCEPT ![d] = Append(@, e)]
  /\ UNCHANGED <<family, pc, stack, parent_map, n_files_map, most_common_words_map,
                 handles, root_stats, results, mode, prev>>

MakeTree == \E d \in DOMAIN tree : \E e \in Catalogue(family) : Create(d, e)

\* ------------------------------------------------------------------------
\* Helpers of analyzeDir.cpp
\* ------------------------------------------------------------------------
\* a mutant of is_file: the result of stat is not tested
is_file_unchecked(e) == e.kind = "file"

\* is_file: the first stat call succeeds and reports a regular file
is_file(e) == e.stat1 /\ e.kind = "file"

\* is_dir: the stat call succeeds and reports a directory
is_dir(e) == e.stat2 /\ e.kind = "dir"

\* a mutant of open_file: a file that cannot be opened is read as an empty one
open_file_unchecked(e) == TRUE

\* open_file: whether fopen returns a FILE*; if not, print_error
open_file(e) == e.fopen

\* a mutant of closedir: the handle is left open
closedir_missing(hs, dir_path) == hs

\* closedir(dir) at the end of get_dir_stats
closedir(hs, dir_path) == hs \ {[type |-> "dir", path |-> dir_path]}

\* ends_with(lowercase(path), ".txt")
IsTxt(path) == ends_with(lowercase(path), TXT_SUFFIX)

\* a mutant of FileStats: the file is counted inside the test on stat
FileStats_CountOnStat(ds, e, path) ==
  IF e.stat2
  THEN [ds EXCEPT
          !.n_files = @ + 1,
          !.largest_file_path =
             IF e.size > ds.largest_file_size THEN clean_path(path) ELSE @,
          !.largest_file_size =
             IF e.size > ds.largest_file_size THEN e.size ELSE @,
          !.all_files_size = @ + e.size]
  ELSE ds

\* a mutant of FileStats: the size is added without the test on stat
FileStats_SizeAlways(ds, e, path) ==
  [ds EXCEPT
     !.n_files = @ + 1,
     !.largest_file_path =
        IF e.stat2 /\ e.size > ds.largest_file_size THEN clean_path(path) ELSE @,
     !.largest_file_size =
        IF e.stat2 /\ e.size > ds.largest_file_size THEN e.size ELSE @,
     !.all_files_size = @ + e.size]

\* the file branch of get_dir_stats up to the size lookup: the file is counted,
\* then, if stat succeeds, compared with the largest so far and added to the total
FileStats(ds, e, path) ==
  LET counted == [ds EXCEPT !.n_files = @ + 1]
  IN IF e.stat2
     THEN [counted EXCEPT
             !.largest_file_path =
                IF e.size > ds.largest_file_size THEN clean_path(path) ELSE @,
             !.largest_file_size =
                IF e.size > ds.largest_file_size THEN e.size ELSE @,
             !.all_files_size = @ + e.size]
     ELSE counted

\* MergeSubdir, where `ties` says whether a child whose largest file has the size
\* of the largest so far replaces it
MergeSubdirWith(ds, sub, ties) ==
  [ds EXCEPT
     !.largest_file_path =
        IF sub.largest_file_size > ds.largest_file_size
           \/ (ties /\ sub.largest_file_size = ds.largest_file_size)
        THEN clean_path(sub.largest_file_path) ELSE @,
     !.largest_file_size =
        IF sub.largest_file_size > ds.largest_file_size
        THEN sub.largest_file_size ELSE @,
     !.n_files = @ + sub.n_files,
     !.n_dirs = @ + sub.n_dirs,
     !.all_files_size = @ + sub.all_files_size,
     !.largest_images = @ \o sub.largest_images]

\* mutants of MergeSubdir: the child counts as one directory; the files of the
\* child are not added; a child with a file of the same size replaces the largest
\* file; the images of the child are dropped
MergeSubdir_OneDir(ds, sub) ==
  [MergeSubdirWith(ds, sub, FALSE) EXCEPT !.n_dirs = ds.n_dirs + 1]

MergeSubdir_NoFiles(ds, sub) ==
  [MergeSubdirWith(ds, sub, FALSE) EXCEPT !.n_files = ds.n_files]

MergeSubdir_Ties(ds, sub) == MergeSubdirWith(ds, sub, TRUE)

MergeSubdir_NoImages(ds, sub) ==
  [MergeSubdirWith(ds, sub, FALSE) EXCEPT !.largest_images = ds.largest_images]

\* the directory branch of get_dir_stats after the recursive call returned
MergeSubdir(ds, sub) ==
  [ds EXCEPT
     !.largest_file_path =
        IF sub.largest_file_size > ds.largest_file_size
        THEN clean_path(sub.largest_file_path) ELSE @,
     !.largest_file_size =
        IF sub.largest_file_size > ds.largest_file_size
        THEN sub.largest_file_size ELSE @,
     !.n_files = @ + sub.n_files,
     !.n_dirs = @ + sub.n_dirs,
     !.all_files_size = @ + sub.all_files_size,
     !.largest_images = @ \o sub.largest_images]

\* a mutant of LastWord: the word that ends the file is dropped
LastWord_Dropped(next_word, map) == map

\* after the loop: the last word of a file that does not end in a
\* non-alphabetic character
LastWord(next_word, map) ==
  IF Len(next_word) >= MIN_WORD_SIZE THEN MapAdd(map, next_word, 1) ELSE map

\* the loop of count_words_in_file from the first fgetc to EOF: `i` is the next
\* character, `next_word` the buffer, `map` the word table
RECURSIVE ScanWords(_, _, _, _)
ScanWords(content, i, next_word, map) ==
  IF i > Len(content)
  THEN LastWord(next_word, map)
  ELSE LET c == tolower(content[i])
       IN IF isalpha(c)
          THEN ScanWords(content, i + 1, Append(next_word, c), map)
          ELSE ScanWords(content, i + 1, <<>>,
                         IF Len(next_word) >= MIN_WORD_SIZE
                         THEN MapAdd(map, next_word, 1) ELSE map)

count_words_in_file(content, map) == ScanWords(content, 1, <<>>, map)

\* get_image_info after popen: what `iss >> width >> height` leaves in width and
\* height (0 and 0 unless the line holds two numbers), then the test on the
\* status of pclose. The result is the optional as a sequence of 0 or 1 ImageInfo.
get_image_info(e, file_path) ==
  LET width == IF e.out = "dims" THEN e.width ELSE 0
      height == IF e.out = "dims" THEN e.height ELSE 0
  IN IF e.status = SYSCALL_SUCCESS /\ width > 0 /\ height > 0
     THEN <<[path |-> clean_path(file_path), width |-> width, height |-> height]>>
     ELSE <<>>

\* ImageInfoComparator
ImageInfoComparator(image1, image2) ==
  LET pixels1 == image1.width * image1.height
      pixels2 == image2.width * image2.height
  IN IF pixels1 # pixels2 THEN pixels1 > pixels2
     ELSE StrLess(image1.path, image2.path)

\* a mutant of WordFrequencyComparator: equal counts in descending word order
WordFrequencyComparator_TiesDown(word1, word2) ==
  IF word1[2] # word2[2] THEN word1[2] > word2[2]
  ELSE StrLess(word2[1], word1[1])

\* a mutant of WordFrequencyComparator: the smaller count first
WordFrequencyComparator_Ascending(word1, word2) ==
  IF word1[2] # word2[2] THEN word1[2] < word2[2]
  ELSE StrLess(word1[1], word2[1])

\* WordFrequencyComparator on pairs <<word, count>>
WordFrequencyComparator(word1, word2) ==
  IF word1[2] # word2[2] THEN word1[2] > word2[2]
  ELSE StrLess(word1[1], word2[1])

\* std::sort under a comparator that orders the elements totally: the element
\* with k elements before it goes to place k + 1. `less[i][j]` is what the
\* comparator returns on the elements at the places i and j.
SortBy(seq, less) ==
  LET Rank(j) == 1 + Cardinality({k \in 1..Len(seq) : less[k][j]})
  IN [i \in 1..Len(seq) |-> seq[CHOOSE j \in 1..Len(seq) : Rank(j) = i]]

\* std::sort of a vector of strings, of words, of images
SortStrings(seq) ==
  SortBy(seq, [i \in 1..Len(seq) |-> [j \in 1..Len(seq) |-> StrLess(seq[i], seq[j])]])

SortWords(seq) ==
  SortBy(seq, [i \in 1..Len(seq) |->
                 [j \in 1..Len(seq) |-> WordFrequencyComparator(seq[i], seq[j])]])

\* a mutant of SortImages: the vector is left in the order of the walk
SortImages_None(seq) == seq

SortImages(seq) ==
  SortBy(seq, [i \in 1..Len(seq) |->
                 [j \in 1..Len(seq) |-> ImageInfoComparator(seq[i], seq[j])]])

\* the elements of a container in the order its iterator yields them
RECURSIVE SeqOfSet(_)
SeqOfSet(S) ==
  IF S = {} THEN <<>>
  ELSE LET x == CHOOSE y \in S : TRUE IN <<x>> \o SeqOfSet(S \ {x})

\* a mutant of Truncate: one element is always kept
Truncate_KeepOne(seq, n) ==
  SubSeq(seq, 1, IF Len(seq) < n THEN Len(seq) ELSE IF n = 0 /\ Len(seq) > 0 THEN 1 ELSE n)

\* resize(std::min(size, n))
Truncate(seq, n) == SubSeq(seq, 1, IF Len(seq) < n THEN Len(seq) ELSE n)

\* the two maps after get_top_level_vacant_dirs: the sentinel is stored, and
\* operator[] inserts every key that is looked up and missing
VacantLookups(nfm) == {k \in DOMAIN nfm : nfm[k] = 0}

ParentMapAfter(pm, nfm) ==
  [k \in DOMAIN pm \cup VacantLookups(nfm) |-> MapGet(pm, k, NO_PATH)]

NFilesMapAfter(pm, nfm) ==
  [k \in DOMAIN nfm \cup {MapGet(pm, d, NO_PATH) : d \in VacantLookups(nfm)} |->
      MapGet(nfm, k, 0)]

\* a mutant of get_top_level_vacant_dirs: the parent is not looked at
get_top_level_vacant_dirs_all(pm, nfm0) ==
  LET nfm == MapPut(nfm0, NO_PATH, 1)
  IN SortStrings(SeqOfSet({clean_path(d) : d \in {k \in DOMAIN nfm : nfm[k] = 0}}))

\* a mutant of get_top_level_vacant_dirs: the sentinel is not stored
get_top_level_vacant_dirs_nosentinel(pm, nfm0) ==
  LET top == {d \in DOMAIN nfm0 :
                nfm0[d] = 0 /\ MapGet(nfm0, MapGet(pm, d, NO_PATH), 0) > 0}
  IN SortStrings(SeqOfSet({clean_path(d) : d \in top}))

\* get_top_level_vacant_dirs, on the maps as the walk left them
get_top_level_vacant_dirs(pm, nfm0) ==
  LET nfm == MapPut(nfm0, NO_PATH, 1)
      top == {d \in DOMAIN nfm :
                nfm[d] = 0 /\ MapGet(nfm, MapGet(pm, d, NO_PATH), 0) > 0}
  IN SortStrings(SeqOfSet({clean_path(d) : d \in top}))

\* ------------------------------------------------------------------------
\* The walk
\* ------------------------------------------------------------------------
Top == stack[Len(stack)]
HasNext == Top.idx < Len(tree[Top.dir_path])
Cur == tree[Top.dir_path][Top.idx + 1]
CurPath == JoinPath(Top.dir_path, Cur.name)
IsDots(e) == e.name = CURRENT_DIRECTORY \/ e.name = PREVIOUS_DIRECTORY
Handle(type, path) == [type |-> type, path |-> path]
ReplaceTop(frame) == [stack EXCEPT ![Len(stack)] = frame]

\* print_error: the process exits
Abort == pc' = "aborted"

\* the head of get_dir_stats: open_directory, then the two map entries
get_dir_stats_enter(dir_path, parent_dir_path) ==
  IF dir_path \in DOMAIN tree
  THEN /\ stack' = Append(stack, [dir_path |-> dir_path, idx |-> 0,
                                  phase |-> "entry", dir_stats |-> NewDirStats])
       /\ parent_map' = MapPut(parent_map, dir_path, parent_dir_path)
       /\ n_files_map' = MapPut(n_files_map, dir_path, 0)
       /\ handles' = handles \cup {Handle("dir", dir_path)}
       /\ pc' = "walk"
  ELSE /\ Abort
       /\ UNCHANGED <<stack, parent_map, n_files_map, handles>>

\* analyzeDir calls get_dir_stats(CURRENT_DIRECTORY, NO_PATH)
Call ==
  /\ pc = "idle"
  /\ get_dir_stats_enter(CURRENT_DIRECTORY, NO_PATH)
  /\ UNCHANGED <<family, tree, most_common_words_map, root_stats, results, mode, prev>>

\* readdir returned "." or "..": continue
SkipDots ==
  /\ pc = "walk" /\ Top.phase = "entry" /\ HasNext
  /\ IsDots(Cur)
  /\ stack' = ReplaceTop([Top EXCEPT !.idx = @ + 1])
  /\ UNCHANGED <<family, tree, pc, parent_map, n_files_map, most_common_words_map,
                 handles, root_stats, results, mode, prev>>

\* popen of the identify command on `path`, in the frame `frame`
Popen(e, path, frame) ==
  IF e.popen
  THEN /\ stack' = ReplaceTop([frame EXCEPT !.phase = "probe"])
       /\ handles' = handles \cup {Handle("pipe", path)}
       /\ pc' = pc
  ELSE /\ Abort
       /\ stack' = ReplaceTop(frame)
       /\ handles' = handles

\* the entry is a regular file: it is counted and measured; then its words are
\* counted if it is a text file (open_file), else identify is started on it
FileEntry ==
  /\ pc = "walk" /\ Top.phase = "entry" /\ HasNext
  /\ ~IsDots(Cur) /\ is_file(Cur)
  /\ n_files_map' = MapAdd(n_files_map, Top.dir_path, 1)
  /\ LET frame == [Top EXCEPT !.dir_stats = FileStats(@, Cur, CurPath)]
     IN IF IsTxt(CurPath)
        THEN IF open_file(Cur)
             THEN /\ stack' = ReplaceTop([frame EXCEPT !.phase = "words"])
                  /\ handles' = handles \cup {Handle("file", CurPath)}
                  /\ pc' = pc
             ELSE /\ Abort
                  /\ stack' = ReplaceTop(frame)
                  /\ handles' = handles
        ELSE Popen(Cur, CurPath, frame)
  /\ UNCHANGED <<family, tree, parent_map, most_common_words_map, root_stats, results,
                 mode, prev>>

\* count_words_in_file from the first fgetc to fclose, then identify is started
CountWords ==
  /\ pc = "walk" /\ Top.phase = "words"
  /\ most_common_words_map' = count_words_in_file(Cur.content, most_common_words_map)
  /\ IF Cur.popen
     THEN /\ stack' = ReplaceTop([Top EXCEPT !.phase = "probe"])
          /\ handles' = (handles \ {Handle("file", CurPath)})
                           \cup {Handle("pipe", CurPath)}
          /\ pc' = pc
     ELSE /\ Abort
          /\ stack' = stack
          /\ handles' = handles \ {Handle("file", CurPath)}
  /\ UNCHANGED <<family, tree, parent_map, n_files_map, root_stats, results, mode, prev>>

\* get_image_info from fgets to its return, and the push_back of its result
Probe ==
  /\ pc = "walk" /\ Top.phase = "probe"
  /\ stack' = ReplaceTop([Top EXCEPT
                            !.phase = "entry", !.idx = @ + 1,
                            !.dir_stats.largest_images =
                               @ \o get_image_info(Cur, CurPath)])
  /\ handles' = handles \ {Handle("pipe", CurPath)}
  /\ UNCHANGED <<family, tree, pc, parent_map, n_files_map, most_common_words_map,
                 root_stats, results, mode, prev>>

\* the entry is a directory: the recursive call
DirEntry ==
  /\ pc = "walk" /\ Top.phase = "entry" /\ HasNext
  /\ ~IsDots(Cur) /\ ~is_file(Cur) /\ is_dir(Cur)
  /\ get_dir_stats_enter(CurPath, Top.dir_path)
  /\ UNCHANGED <<family, tree, most_common_words_map, root_stats, results, mode, prev>>

\* the entry is neither: nothing happens
OtherEntry ==
  /\ pc = "walk" /\ Top.phase = "entry" /\ HasNext
  /\ ~IsDots(Cur) /\ ~is_file(Cur) /\ ~is_dir(Cur)
  /\ stack' = ReplaceTop([Top EXCEPT !.idx = @ + 1])
  /\ UNCHANGED <<family, tree, pc, parent_map, n_files_map, most_common_words_map,
                 handles, root_stats, results, mode, prev>>

\* readdir returned nullptr: closedir and return; the caller merges the result
Return ==
  /\ pc = "walk" /\ Top.phase = "entry" /\ ~HasNext
  /\ handles' = closedir(handles, Top.dir_path)
  /\ IF Len(stack) = 1
     THEN /\ stack' = <<>>
          /\ root_stats' = Top.dir_stats
          /\ pc' = "walked"
          /\ UNCHANGED n_files_map
     ELSE LET caller == stack[Len(stack) - 1]
          IN /\ stack' = [SubSeq(stack, 1, Len(stack) - 1) EXCEPT
                            ![Len(stack) - 1] =
                               [caller EXCEPT
                                  !.idx = @ + 1,
                                  !.dir_stats = MergeSubdir(@, Top.dir_stats)]]
             /\ n_files_map' = MapAdd(n_files_map, caller.dir_path, Top.dir_stats.n_files)
             /\ UNCHANGED <<root_stats, pc>>
  /\ UNCHANGED <<family, tree, parent_map, most_common_words_map, results, mode, prev>>

\* analyzeDir after the walk: the simple stats, the two sorted and truncated
\* lists, the vacant directories
Finish(n) ==
  /\ pc = "walked"
  /\ results' =
       [n |-> n,
        largest_file_path |-> root_stats.largest_file_path,
        largest_file_size |-> root_stats.largest_file_size,
        n_files |-> root_stats.n_files,
        n_dirs |-> root_stats.n_dirs,
        all_files_size |-> root_stats.all_files_size,
        most_common_words |->
           Truncate(SortWords(SeqOfSet({<<w, most_common_words_map[w]>> :
                                           w \in DOMAIN most_common_words_map})), n),
        largest_images |->
           Truncate(SortImages(root_stats.largest_images), n),
        vacant_dirs |-> get_top_level_vacant_dirs(parent_map, n_files_map)]
  /\ LET nfm == MapPut(n_files_map, NO_PATH, 1)
     IN /\ parent_map' = ParentMapAfter(parent_map, nfm)
        /\ n_files_map' = NFilesMapAfter(parent_map, nfm)
  /\ pc' = "done"
  /\ UNCHANGED <<family, tree, stack, most_common_words_map, handles, root_stats, mode, prev>>

\* main returns and the program is started again on the tree, where readdir may
\* return the entries in another order: the three maps are empty again
NewProcess ==
  /\ pc = "done" /\ mode = "first"
  /\ prev' = [tree |-> tree, results |-> results]
  /\ mode' = "fresh"
  /\ tree' \in Reorderings(tree)
  /\ pc' = "idle"
  /\ parent_map' = EmptyMap
  /\ n_files_map' = EmptyMap
  /\ most_common_words_map' = EmptyMap
  /\ root_stats' = NewDirStats
  /\ results' = NoResults
  /\ UNCHANGED <<family, stack, handles>>

\* analyzeDir is called a second time in the same process: the three maps keep
\* what the first call left in them
RunAgain ==
  /\ pc = "done" /\ mode = "first"
  /\ prev' = [tree |-> tree, results |-> results]
  /\ mode' = "again"
  /\ pc' = "idle"
  /\ root_stats' = NewDirStats
  /\ results' = NoResults
  /\ UNCHANGED <<family, tree, stack, parent_map, n_files_map, most_common_words_map, handles>>

Walk ==
  \/ Call
  \/ SkipDots
  \/ FileEntry
  \/ CountWords
  \/ Probe
  \/ DirEntry
  \/ OtherEntry
  \/ Return

Next ==
  \/ MakeTree
  \/ Walk
  \/ \E n \in 0..MaxN : Finish(n)

NextRuns ==
  \/ MakeTree
  \/ Walk
  \/ \E n \in 0..MaxN : Finish(n)
  \/ NewProcess
  \/ RunAgain

\* one call of analyzeDir on every tree of the catalogues
Spec == Init /\ [][Next]_vars

\* two calls of analyzeDir on one tree
SpecRuns == InitRuns /\ [][NextRuns]_vars

\* ========================================================================
\* The tree, read without the walk
\* ========================================================================
\* Every entry of the tree, as <<directory, place in its listing>>
EntryRefs == UNION {{<<d, i>> : i \in 1..Len(tree[d])} : d \in DOMAIN tree}
EntryAt(x) == tree[x[1]][x[2]]
PathOf(x) == JoinPath(x[1], EntryAt(x).name)
Pseudo(x) == EntryAt(x).name \in {CURRENT_DIRECTORY, PREVIOUS_DIRECTORY}

\* An entry is a regular file (a directory) when stat says so: the kind of an
\* entry is what the stat call of is_file (of is_dir) reports.
RegularFile(x) == ~Pseudo(x) /\ EntryAt(x).kind = "file" /\ EntryAt(x).stat1
Subdirectory(x) == ~Pseudo(x) /\ EntryAt(x).kind = "dir" /\ EntryAt(x).stat2

\* the directory p is d or lies below d
Under(p, d) ==
  \/ p = d
  \/ Len(p) > Len(d) /\ SubSeq(p, 1, Len(d) + 1) = d \o <<PATH_SEPARATOR>>

FilesUnder(d) == {x \in EntryRefs : RegularFile(x) /\ Under(x[1], d)}
SubdirsUnder(d) == {x \in EntryRefs : Subdirectory(x) /\ Under(x[1], d)}
FilesIn(d) == {x \in EntryRefs : RegularFile(x) /\ x[1] = d}

\* a path of the tree without its leading "./"
Stripped(path) ==
  IF path = CURRENT_DIRECTORY THEN path ELSE SubSeq(path, 3, Len(path))

\* the sum of f[x] over the x in S
RECURSIVE SumOver(_, _)
SumOver(S, f) ==
  IF S = {} THEN 0
  ELSE LET x == CHOOSE y \in S : TRUE IN f[x] + SumOver(S \ {x}, f)

Min(a, b) == IF a < b THEN a ELSE b
Returned == pc = "done"

\* ------------------------------------------------------------------------
\* C1. When analyzeDir returns (every directory could be opened), n_dirs is 1
\* plus the number of subdirectories anywhere below the root; and every
\* get_dir_stats call is about to return 1 plus the number of subdirectories
\* anywhere below its directory, which is 1 plus the sum of what the calls for
\* its child directories returned.
\* ------------------------------------------------------------------------
AboutToReturn == pc = "walk" /\ Top.phase = "entry" /\ ~HasNext

C1_NDirs ==
  /\ Returned => results.n_dirs = 1 + Cardinality(SubdirsUnder(CURRENT_DIRECTORY))
  /\ AboutToReturn =>
       Top.dir_stats.n_dirs = 1 + Cardinality(SubdirsUnder(Top.dir_path))

\* a directory inside a directory inside the root, and a third directory
C1_Witness ==
  /\ Returned /\ results.n_dirs = 4
  /\ \E d \in DOMAIN tree : Len(d) = 5

\* ------------------------------------------------------------------------
\* C2. n_files is the number of regular files anywhere below the root:
\* directories and entries that are neither add nothing.
\* ------------------------------------------------------------------------
C2_NFiles ==
  Returned => results.n_files = Cardinality(FilesUnder(CURRENT_DIRECTORY))

\* two files, one of them in a subdirectory and one whose size lookup fails,
\* beside an entry that is no regular file
C2_Witness ==
  /\ Returned /\ results.n_files = 2
  /\ \E x \in EntryRefs : RegularFile(x) /\ x[1] # CURRENT_DIRECTORY
  /\ \E x \in EntryRefs : RegularFile(x) /\ ~EntryAt(x).stat2
  /\ \E x \in EntryRefs : ~RegularFile(x)

\* ------------------------------------------------------------------------
\* C3. As claimed: n_files is the sum, over the leaf directories (those with no
\* subdirectory), of the number of regular files directly inside each.
\* ------------------------------------------------------------------------
Leaf(d) == ~\E x \in EntryRefs : x[1] = d /\ Subdirectory(x)

C3_LeafSum ==
  Returned =>
    results.n_files =
      SumOver({d \in DOMAIN tree : Leaf(d)},
              [d \in DOMAIN tree |-> Cardinality(FilesIn(d))])

\* C3 as amended: n_files is the sum, over all the directories of the tree (leaf
\* or not), of the number of regular files directly inside each.
C3_DirSum ==
  Returned =>
    results.n_files =
      SumOver(DOMAIN tree, [d \in DOMAIN tree |-> Cardinality(FilesIn(d))])

\* a file directly inside a directory that has a subdirectory with a file
C3_Witness ==
  /\ Returned
  /\ \E d \in DOMAIN tree : ~Leaf(d) /\ FilesIn(d) # {}
  /\ \E d \in DOMAIN tree : Leaf(d) /\ FilesIn(d) # {}

\* ------------------------------------------------------------------------
\* C4. all_files_size is the sum of the sizes of exactly the regular files whose
\* size lookup (the second stat call) succeeded.
\* ------------------------------------------------------------------------
Measured(x) == RegularFile(x) /\ EntryAt(x).stat2

C4_AllFilesSize ==
  Returned =>
    results.all_files_size =
      SumOver({x \in EntryRefs : Measured(x)},
              [x \in EntryRefs |-> EntryAt(x).size])

\* a measured file in a subdirectory, and a file whose size lookup fails
C4_Witness ==
  /\ Returned /\ results.all_files_size = 2
  /\ \E x \in EntryRefs : Measured(x) /\ x[1] # CURRENT_DIRECTORY
  /\ \E x \in EntryRefs : RegularFile(x) /\ ~EntryAt(x).stat2

\* ------------------------------------------------------------------------
\* C5. The largest file is the first file, in the order the walk meets the
\* files, whose size is the maximum over the measured files; its path is
\* reported without the leading "./". With no measured file the path is empty
\* and the size is -1; a file of 0 bytes replaces the -1.
\* ------------------------------------------------------------------------
\* the regular files below d from place i of its listing on, in the order of a
\* depth-first walk
RECURSIVE Encounter(_, _)
Encounter(d, i) ==
  IF i > Len(tree[d]) THEN <<>>
  ELSE LET x == <<d, i>>
       IN (IF RegularFile(x) THEN <<x>>
           ELSE IF Subdirectory(x) /\ PathOf(x) \in DOMAIN tree
                THEN Encounter(PathOf(x), 1)
                ELSE <<>>)
          \o Encounter(d, i + 1)

MeasuredInOrder == SelectSeq(Encounter(CURRENT_DIRECTORY, 1), Measured)

C5_LargestFile ==
  Returned =>
    LET files == MeasuredInOrder
    IN IF files = <<>>
       THEN /\ results.largest_file_path = <<>>
            /\ results.largest_file_size = -1
       ELSE LET first == CHOOSE i \in 1..Len(files) :
                           /\ \A j \in 1..Len(files) :
                                 EntryAt(files[j]).size <= EntryAt(files[i]).size
                           /\ \A j \in 1..(i - 1) :
                                 EntryAt(files[j]).size < EntryAt(files[i]).size
            IN /\ results.largest_file_size = EntryAt(files[first]).size
               /\ results.largest_file_path = Stripped(PathOf(files[first]))

\* two files of the largest size: the first one the walk meets is in a
\* subdirectory, the second one in the root
C5_Witness ==
  /\ Returned /\ results.largest_file_size = 2
  /\ Len(results.largest_file_path) = 3
  /\ \E x \in EntryRefs :
        /\ Measured(x) /\ EntryAt(x).size = 2 /\ x[1] = CURRENT_DIRECTORY
        /\ Stripped(PathOf(x)) # results.largest_file_path

\* ------------------------------------------------------------------------
\* C6. A directory is in vacant_dirs if and only if no regular file is anywhere
\* below it and its parent has a regular file somewhere below it (the root's
\* parent always counts as having one); so no reported directory has a reported
\* ancestor; the list is in ascending order, the paths without the leading "./".
\* ------------------------------------------------------------------------
Vacant(d) == FilesUnder(d) = {}

ParentDir(d) ==
  CHOOSE p \in DOMAIN tree : \E i \in 1..Len(tree[p]) : JoinPath(p, tree[p][i].name) = d

TopLevelVacant(d) ==
  Vacant(d) /\ (d = CURRENT_DIRECTORY \/ ~Vacant(ParentDir(d)))

C6_VacantDirs ==
  Returned =>
    LET v == results.vacant_dirs
    IN /\ {v[i] : i \in 1..Len(v)} =
            {Stripped(d) : d \in {t \in DOMAIN tree : TopLevelVacant(t)}}
       /\ \A i \in 1..(Len(v) - 1) : StrLess(v[i], v[i + 1])
       /\ \A d1, d2 \in DOMAIN tree :
            (d1 # d2 /\ Under(d2, d1)) =>
               ~(\E i, j \in 1..Len(v) : v[i] = Stripped(d1) /\ v[j] = Stripped(d2))

\* two directories are reported, and a third one is vacant and not reported
C6_Witness ==
  /\ Returned /\ Len(results.vacant_dirs) = 2
  /\ \E d \in DOMAIN tree : Vacant(d) /\ ~TopLevelVacant(d)

\* ------------------------------------------------------------------------
\* C7. After one walk that started with an empty word table, the table holds
\* for each word the number of maximal runs of letters of length at least 5
\* that lower-case to it, over the regular files whose lower-cased path ends in
\* ".txt" and no other file; a run that ends the file counts; every key is
\* lower-case letters, at least 5 of them.
\* ------------------------------------------------------------------------
Letter(c) == c \in 65..90 \/ c \in 97..122
Lowered(str) == [i \in 1..Len(str) |-> IF str[i] \in 65..90 THEN str[i] + 32 ELSE str[i]]

TextFile(x) ==
  /\ RegularFile(x)
  /\ Len(PathOf(x)) >= 4
  /\ Lowered(SubSeq(PathOf(x), Len(PathOf(x)) - 3, Len(PathOf(x)))) = TXT_SUFFIX

\* the maximal runs of letters of a content, as <<first, last>>
Runs(content) ==
  {r \in (1..Len(content)) \X (1..Len(content)) :
     /\ r[1] <= r[2]
     /\ \A i \in r[1]..r[2] : Letter(content[i])
     /\ (r[1] = 1 \/ ~Letter(content[r[1] - 1]))
     /\ (r[2] = Len(content) \/ ~Letter(content[r[2] + 1]))}

\* the words of the text files, as <<file, first, last>>
WordRuns ==
  UNION {{<<x, r[1], r[2]>> : r \in {q \in Runs(EntryAt(x).content) :
                                        q[2] - q[1] + 1 >= 5}} :
         x \in {y \in EntryRefs : TextFile(y)}}

WordOfRun(w) == Lowered(SubSeq(EntryAt(w[1]).content, w[2], w[3]))

C7_WordTable ==
  (pc \in {"walked", "done"} /\ mode = "first") =>
    /\ DOMAIN most_common_words_map = {WordOfRun(w) : w \in WordRuns}
    /\ \A word \in DOMAIN most_common_words_map :
         /\ most_common_words_map[word] =
               Cardinality({w \in WordRuns : WordOfRun(w) = word})
         /\ Len(word) >= 5
         /\ \A i \in 1..Len(word) : word[i] \in 97..122

\* a text file with an upper-case name whose last word ends the file, and a file
\* that holds words and is no text file
C7_Witness ==
  /\ Returned
  /\ \E x \in EntryRefs : RegularFile(x) /\ ~TextFile(x) /\ EntryAt(x).content = Text_hhw
  /\ \E x \in EntryRefs : TextFile(x) /\ EntryAt(x).content = Text_HW
  /\ DOMAIN most_common_words_map = {<<104,101,108,108,111>>, <<119,111,114,108,100,115>>}
  /\ most_common_words_map[<<104,101,108,108,111>>] = 2

\* ------------------------------------------------------------------------
\* C8. most_common_words is the first min(n, number of words) entries of the
\* word table in descending order of count and, for equal counts, ascending
\* order of word.
\* ------------------------------------------------------------------------
\* the pair a comes before the pair b
WordAhead(a, b) == a[2] > b[2] \/ (a[2] = b[2] /\ StrLess(a[1], b[1]))

C8_MostCommonWords ==
  Returned =>
    LET r == results.most_common_words
        all == {<<w, most_common_words_map[w]>> : w \in DOMAIN most_common_words_map}
        taken == {r[i] : i \in 1..Len(r)}
    IN /\ Len(r) = Min(results.n, Cardinality(all))
       /\ taken \subseteq all
       /\ \A i, j \in 1..Len(r) : i < j => WordAhead(r[i], r[j])
       /\ \A a \in taken : \A b \in all \ taken : WordAhead(a, b)

\* three words, two of them with one count, and n = 2
C8_Witness ==
  /\ Returned /\ results.n = 2
  /\ Cardinality(DOMAIN most_common_words_map) = 3
  /\ Len(results.most_common_words) = 2
  /\ \E w \in DOMAIN most_common_words_map :
        /\ most_common_words_map[w] = results.most_common_words[2][2]
        /\ w # results.most_common_words[2][1]

\* ------------------------------------------------------------------------
\* C9. largest_images is the first min(n, number of images) entries of the
\* list of all the files of the tree, at any depth, on which the probe
\* succeeded, in descending order of width*height and, for equal areas,
\* ascending order of path.
\* ------------------------------------------------------------------------
IsImage(x) ==
  /\ RegularFile(x)
  /\ EntryAt(x).popen /\ EntryAt(x).status = 0 /\ EntryAt(x).out = "dims"
  /\ EntryAt(x).width > 0 /\ EntryAt(x).height > 0

Images ==
  {[path |-> Stripped(PathOf(x)), width |-> EntryAt(x).width,
    height |-> EntryAt(x).height] : x \in {y \in EntryRefs : IsImage(y)}}

ImageAhead(a, b) ==
  \/ a.width * a.height > b.width * b.height
  \/ a.width * a.height = b.width * b.height /\ StrLess(a.path, b.path)

C9_LargestImages ==
  Returned =>
    LET r == results.largest_images
        taken == {r[i] : i \in 1..Len(r)}
    IN /\ Len(r) = Min(results.n, Cardinality(Images))
       /\ taken \subseteq Images
       /\ \A i, j \in 1..Len(r) : i < j => ImageAhead(r[i], r[j])
       /\ \A a \in taken : \A b \in Images \ taken : ImageAhead(a, b)

\* two images of one area, the one that is returned in a subdirectory, and n = 1
C9_Witness ==
  /\ Returned /\ results.n = 1
  /\ Len(results.largest_images) = 1
  /\ Len(results.largest_images[1].path) = 3
  /\ \E b \in Images :
        /\ b # results.largest_images[1]
        /\ b.width * b.height =
             results.largest_images[1].width * results.largest_images[1].height

\* ------------------------------------------------------------------------
\* C10. analyzeDir(0) returns two empty lists, and the other six fields are
\* those analyzeDir(n) returns on the same tree for n > 0.
\* ------------------------------------------------------------------------
Scalars(r) ==
  <<r.largest_file_path, r.largest_file_size, r.n_files, r.n_dirs,
    r.all_files_size, r.vacant_dirs>>

\* the two calls were made in two processes on the same tree
TwoFreshCalls == Returned /\ mode = "fresh" /\ prev.tree = tree

C10_ZeroN ==
  /\ (Returned /\ results.n = 0) =>
        /\ results.most_common_words = <<>>
        /\ results.largest_images = <<>>
  /\ (TwoFreshCalls /\ (results.n = 0) # (prev.results.n = 0)) =>
        Scalars(results) = Scalars(prev.results)

\* analyzeDir(2) returned a word and an image, then analyzeDir(0) on the same tree
C10_Witness ==
  /\ TwoFreshCalls /\ results.n = 0 /\ prev.results.n = 2
  /\ prev.results.most_common_words # <<>>
  /\ prev.results.largest_images # <<>>
  /\ results.n_files = 3

\* ------------------------------------------------------------------------
\* C11. As claimed: analyzeDir(n) called twice in one process on an unmodified
\* tree whose files have pairwise distinct sizes returns the same Results
\* twice, the three maps keeping their contents from the first call into the
\* second.
\* ------------------------------------------------------------------------
DistinctSizes ==
  \A x, y \in EntryRefs :
     (RegularFile(x) /\ RegularFile(y) /\ x # y) => EntryAt(x).size # EntryAt(y).size

\* the second of two calls in one process has returned
SecondCall == Returned /\ mode = "again" /\ prev.tree = tree

C11_Idempotent ==
  (SecondCall /\ DistinctSizes /\ results.n = prev.results.n) => results = prev.results

\* ------------------------------------------------------------------------
\* C12. As claimed: on the root that holds the file a.txt with the content
\* "hello hello world" and the empty directory empty, analyzeDir(n) returns for
\* every n >= 1 most_common_words = [("hello", 2)], vacant_dirs = ["empty"],
\* n_files = 1 and n_dirs = 2.
\* ------------------------------------------------------------------------
Word_hello == <<104, 101, 108, 108, 111>>
Word_world == <<119, 111, 114, 108, 100>>

Scenario ==
  /\ DOMAIN tree = {CURRENT_DIRECTORY, JoinPath(CURRENT_DIRECTORY, Name_empty)}
  /\ {tree[CURRENT_DIRECTORY][i] : i \in 1..Len(tree[CURRENT_DIRECTORY])} = CatScenario
  /\ tree[JoinPath(CURRENT_DIRECTORY, Name_empty)] = <<>>

ScenarioStats ==
  /\ results.vacant_dirs = <<Name_empty>>
  /\ results.n_files = 1
  /\ results.n_dirs = 2

C12_Scenario ==
  (Returned /\ Scenario /\ results.n >= 1) =>
     /\ results.most_common_words = <<(<<Word_hello, 2>>)>>
     /\ ScenarioStats

\* C12 as amended: most_common_words is [("hello", 2)] for n = 1 and
\* [("hello", 2), ("world", 1)] for every n >= 2; the three other fields are as
\* claimed.
C12_ScenarioWords ==
  (Returned /\ Scenario /\ results.n >= 1) =>
     /\ results.most_common_words =
          IF results.n = 1 THEN <<(<<Word_hello, 2>>)>>
          ELSE <<(<<Word_hello, 2>>), (<<Word_world, 1>>)>>
     /\ ScenarioStats

\* the scenario with n = 2, the directory listed before the file
C12_Witness ==
  /\ Returned /\ Scenario /\ results.n = 2
  /\ tree[CURRENT_DIRECTORY][1].name = Name_empty

\* ------------------------------------------------------------------------
\* C13. As claimed: whatever the probe of a file does (the command cannot be
\* started, it prints nothing that parses, it prints a width or a height that
\* is not positive, it exits with a non-zero status), the walk does not abort
\* on it; and a file is in the image list only if the status is zero and both
\* numbers are positive.
\* ------------------------------------------------------------------------
\* the process exited in the probe of the current entry
AbortedInProbe ==
  /\ pc = "aborted" /\ stack # <<>> /\ HasNext
  /\ is_file(Cur) /\ ~Cur.popen
  /\ IsTxt(CurPath) => Cur.fopen

\* the files whose probe exits with status zero after two positive numbers
Probed ==
  {x \in EntryRefs :
     /\ RegularFile(x)
     /\ EntryAt(x).status = 0 /\ EntryAt(x).out = "dims"
     /\ EntryAt(x).width > 0 /\ EntryAt(x).height > 0}

C13_ProbeNeverAborts ==
  /\ ~AbortedInProbe
  /\ pc = "walked" =>
       {root_stats.largest_images[i].path : i \in 1..Len(root_stats.largest_images)}
          = {Stripped(PathOf(x)) : x \in Probed}

\* ------------------------------------------------------------------------
\* C14. When opendir fails on a directory the walk reaches, or fopen fails on
\* a text file, the very next step is the exit of the process; after it nothing
\* changes any more and no Results is ever returned; so a walk that ends has
\* opened every directory and every text file of the tree.
\* ------------------------------------------------------------------------
\* the next step of the program is an opendir or an fopen that fails
OpenFails ==
  \/ pc = "idle" /\ CURRENT_DIRECTORY \notin DOMAIN tree
  \/ /\ pc = "walk" /\ Top.phase = "entry" /\ HasNext /\ ~IsDots(Cur)
     /\ \/ is_file(Cur) /\ IsTxt(CurPath) /\ ~Cur.fopen
        \/ ~is_file(Cur) /\ is_dir(Cur) /\ CurPath \notin DOMAIN tree

AllOpened ==
  \A x \in EntryRefs :
     /\ Subdirectory(x) => PathOf(x) \in DOMAIN tree
     /\ TextFile(x) => EntryAt(x).fopen

C14_FatalOpen ==
  /\ [](pc = "aborted" => results = NoResults)
  /\ [](pc \in {"walked", "done"} => AllOpened)
  /\ [][OpenFails => pc' = "aborted"]_vars
  /\ [][pc # "aborted"]_vars

\* the process exited on a text file that cannot be opened, in a subdirectory,
\* after the words of another text file had been counted
C14_Witness ==
  /\ pc = "aborted" /\ Len(stack) = 2 /\ HasNext
  /\ is_file(Cur) /\ IsTxt(CurPath) /\ ~Cur.fopen
  /\ DOMAIN most_common_words_map # {}
  /\ results = NoResults

\* ------------------------------------------------------------------------
\* C15. As claimed: a file on which stat fails, be it the stat call of is_file
\* or the size lookup after it, adds nothing to n_files, all_files_size and the
\* largest file; the walk goes on over the entries left and analyzeDir returns.
\* ------------------------------------------------------------------------
\* the entry is a file, by its inode
FileInode(x) == ~Pseudo(x) /\ EntryAt(x).kind = "file"

\* the files on which both stat calls succeed
StatOk == {x \in EntryRefs : FileInode(x) /\ EntryAt(x).stat1 /\ EntryAt(x).stat2}

\* the size lookup alone fails
SizeStatFails(x) == FileInode(x) /\ EntryAt(x).stat1 /\ ~EntryAt(x).stat2

SizeOf == [x \in EntryRefs |-> EntryAt(x).size]

\* the largest file is one of the files in S, of the largest size in S
LargestAmong(S) ==
  IF S = {}
  THEN results.largest_file_size = -1 /\ results.largest_file_path = <<>>
  ELSE \E x \in S :
         /\ \A y \in S : SizeOf[y] <= SizeOf[x]
         /\ results.largest_file_size = SizeOf[x]
         /\ results.largest_file_path = Stripped(PathOf(x))

\* the process exited on an opendir, an fopen or a popen that failed
ExitedOnOpen ==
  \/ stack = <<>> /\ CURRENT_DIRECTORY \notin DOMAIN tree
  \/ /\ stack # <<>> /\ HasNext
     /\ \/ /\ Cur.kind = "file" /\ Cur.stat1
           /\ (IsTxt(CurPath) /\ ~Cur.fopen) \/ ~Cur.popen
        \/ Cur.kind = "dir" /\ Cur.stat2 /\ CurPath \notin DOMAIN tree

C15_StatSkipped ==
  /\ pc = "aborted" => ExitedOnOpen
  /\ Returned =>
       /\ results.n_files = Cardinality(StatOk)
       /\ results.all_files_size = SumOver(StatOk, SizeOf)
       /\ LargestAmong(StatOk)

\* C15 as amended: a file on which the stat call of is_file fails adds nothing
\* to n_files, all_files_size and the largest file; a file on which only the
\* size lookup fails is counted in n_files and adds nothing to all_files_size
\* and the largest file. Neither failure ends the walk: the process exits only
\* on an opendir, an fopen or a popen that fails.
C15_StatFailure ==
  /\ pc = "aborted" => ExitedOnOpen
  /\ Returned =>
       /\ results.n_files =
             Cardinality(StatOk) + Cardinality({x \in EntryRefs : SizeStatFails(x)})
       /\ results.all_files_size = SumOver(StatOk, SizeOf)
       /\ LargestAmong(StatOk)

\* a file whose size lookup fails and that is larger than every other, a file
\* whose first stat fails, then a file that is measured
C15_Witness ==
  /\ Returned /\ Len(tree[CURRENT_DIRECTORY]) = 3
  /\ SizeStatFails(<<CURRENT_DIRECTORY, 1>>)
  /\ FileInode(<<CURRENT_DIRECTORY, 2>>) /\ ~EntryAt(<<CURRENT_DIRECTORY, 2>>).stat1
  /\ <<CURRENT_DIRECTORY, 3>> \in StatOk
  /\ results.n_files = 2 /\ results.largest_file_size = 2

\* ------------------------------------------------------------------------
\* C16. When get_top_level_vacant_dirs is about to start, every get_dir_stats
\* call has returned, and for every directory d of the walk n_files_map[d] is
\* the number of regular files anywhere below d and parent_map[d] is the
\* directory that holds d (the empty path for the root); a call that is about
\* to return returns the n_files that n_files_map holds for its directory;
\* and no step of the walk lowers an entry of n_files_map.
\* ------------------------------------------------------------------------
WalkDone == pc = "walked"

MapsComplete ==
  /\ stack = <<>>
  /\ DOMAIN n_files_map = DOMAIN tree
  /\ DOMAIN parent_map = DOMAIN tree
  /\ \A d \in DOMAIN tree :
       /\ n_files_map[d] = Cardinality(FilesUnder(d))
       /\ parent_map[d] = IF d = CURRENT_DIRECTORY THEN NO_PATH ELSE ParentDir(d)

ReturnsItsCount ==
  /\ Top.dir_path \in DOMAIN n_files_map
  /\ n_files_map[Top.dir_path] = Top.dir_stats.n_files
  /\ n_files_map[Top.dir_path] = Cardinality(FilesUnder(Top.dir_path))

NeverLowered ==
  pc = "walk" =>
     \A d \in DOMAIN n_files_map :
        d \in DOMAIN n_files_map' /\ n_files_map'[d] >= n_files_map[d]

C16_MapsAtResolve ==
  /\ [](WalkDone => MapsComplete)
  /\ [](AboutToReturn => ReturnsItsCount)
  /\ [][NeverLowered]_vars

\* the root has two files below it, one of them in a subdirectory, and a
\* second subdirectory has none
C16_Witness ==
  /\ WalkDone /\ n_files_map[CURRENT_DIRECTORY] = 2
  /\ \E d \in DOMAIN tree : d # CURRENT_DIRECTORY /\ n_files_map[d] = 1
  /\ \E d \in DOMAIN tree : n_files_map[d] = 0

\* ------------------------------------------------------------------------
\* C17. As long as the process has not exited, the open directory handles are
\* those of the directories of the active get_dir_stats calls, one per call; at
\* most one FILE* or pipe is open beside them; and when the root call has
\* returned no handle is open.
\* ------------------------------------------------------------------------
DirHandles == {h \in handles : h.type = "dir"}
OtherHandles == {h \in handles : h.type # "dir"}

C17_Handles ==
  pc # "aborted" =>
     /\ DirHandles = {[type |-> "dir", path |-> stack[i].dir_path] : i \in 1..Len(stack)}
     /\ Cardinality(DirHandles) = Len(stack)
     /\ Cardinality(OtherHandles) <= 1
     /\ pc \in {"walked", "done"} => handles = {}

\* three nested calls are active and the pipe of a probe is open
C17_Witness ==
  /\ pc = "walk" /\ Len(stack) = 3
  /\ \E h \in handles : h.type = "pipe"
  /\ Cardinality(handles) = 4

\* ------------------------------------------------------------------------
\* C18. On a tree without any regular file, whatever its directories,
\* vacant_dirs is the one-element list ["."]; and on every tree the empty path
\* of the sentinel is not reported, and after get_top_level_vacant_dirs the
\* keys of n_files_map are the directories of the walk and the sentinel, which
\* is mapped to 1.
\* ------------------------------------------------------------------------
NoFileAtAll == FilesUnder(CURRENT_DIRECTORY) = {}

C18_RootVacant ==
  Returned =>
     /\ NoFileAtAll => results.vacant_dirs = <<CURRENT_DIRECTORY>>
     /\ \A i \in 1..Len(results.vacant_dirs) : results.vacant_dirs[i] # NO_PATH
     /\ DOMAIN n_files_map = DOMAIN tree \cup {NO_PATH}
     /\ n_files_map[NO_PATH] = 1

\* no regular file, a directory inside a directory, and a third entry
C18_Witness ==
  /\ Returned /\ NoFileAtAll
  /\ Cardinality(EntryRefs) = 3
  /\ \E d \in DOMAIN tree : Len(d) = 5
  /\ results.vacant_dirs = <<CURRENT_DIRECTORY>>

\* ------------------------------------------------------------------------
\* C19. Two runs of analyzeDir(n), each in a fresh process, on one tree whose
\* directories readdir lists in two orders, return the same n_files, n_dirs,
\* all_files_size, largest_file_size, most_common_words, largest_images and
\* vacant_dirs; largest_file_path differs only if two measured files have the
\* largest size.
\* ------------------------------------------------------------------------
\* the second of two runs has returned; its tree is a reordering of the first
TwoOrders == Returned /\ mode = "fresh" /\ results.n = prev.results.n

TiedLargest ==
  \E x, y \in EntryRefs :
     /\ x # y /\ Measured(x) /\ Measured(y)
     /\ EntryAt(x).size = results.largest_file_size
     /\ EntryAt(y).size = results.largest_file_size

C19_OrderIndependent ==
  TwoOrders =>
     /\ results.n_files = prev.results.n_files
     /\ results.n_dirs = prev.results.n_dirs
     /\ results.all_files_size = prev.results.all_files_size
     /\ results.largest_file_size = prev.results.largest_file_size
     /\ results.most_common_words = prev.results.most_common_words
     /\ results.largest_images = prev.results.largest_images
     /\ results.vacant_dirs = prev.results.vacant_dirs
     /\ results.largest_file_path # prev.results.largest_file_path => TiedLargest

\* the two runs disagree on the largest file, and return two images that the
\* two walks met in different orders
C19_Witness ==
  /\ TwoOrders /\ tree # prev.tree
  /\ results.largest_file_path # prev.results.largest_file_path
  /\ Len(results.largest_images) = 2
====
